---- MODULE Spec2Model ----
(***************************************************************************)
(* A model of examples/client/docling_serve_client.py: the DoclingServe    *)
(* client, its transport (_request), the wait loop (wait_for_success) and  *)
(* the file conversion (process_file_async, process_pdf).                  *)
(*                                                                         *)
(* Every caller is one thread of control that invokes one operation on the *)
(* shared client.  The conversion service is the environment: it answers    *)
(* each HTTP request with a response (or the transport raises), and it      *)
(* moves a task it created through pending, started and success/failure.   *)
(***************************************************************************)
EXTENDS Integers, Sequences, FiniteSets, TLC

(* ------------------------------ bounds --------------------------------- *)

\* the longest list of paths handed to process_file_async
MaxFiles == 2
\* the most sleep/poll cycles of one wait loop that the model follows
MaxPolls == 3

(* ------------------------- program constants --------------------------- *)

WAITING_TIME == 2
API_URL == "http://localhost:5001"
PROCESS_URL_ENDPOINT == <<"/v1/convert/source/async">>
PROCESS_FILE_ENDPOINT == <<"/v1/convert/file/async">>

(* ----------------------------- universe -------------------------------- *)

\* the threads that call into the one client
Callers == {1, 2}

\* the source URLs and output formats a caller may pass
Urls == {"https://example.org/doc.pdf", "https://arxiv.org/pdf/2501.17887"}
Options == {"markdown", "json"}

\* the paths a caller may pass, and those of them that exist on disk
Paths == {"a.pdf", "missing.pdf"}
ExistingPaths == {"a.pdf"}

FileLists == UNION {[1..n -> Paths] : n \in 0..MaxFiles}

\* the bearer credential given to the constructor; "" stands for None
ApiKeys == {"", "secret"}

\* the identifiers the service gives to the tasks it creates
TaskIds == {"t1", "t2"}

\* the service's view of a task; "none" is a task not created yet
NonTerminal == {"pending", "started"}
Terminal == {"success", "failure"}

StatusCodes == {200, 400, 404}

\* Python's None, as the value of a string-valued local
None == "None"

(* ------------------------ response bodies, JSON ------------------------ *)

TaskBody(t) ==
    CASE t = "t1" -> "{\"task_id\":\"t1\"}"
      [] t = "t2" -> "{\"task_id\":\"t2\"}"

StatusBody(s) ==
    CASE s = "pending" -> "{\"task_status\":\"pending\"}"
      [] s = "started" -> "{\"task_status\":\"started\"}"
      [] s = "success" -> "{\"task_status\":\"success\"}"
      [] s = "failure" -> "{\"task_status\":\"failure\"}"

ResultBodies ==
    { "{\"document\":{\"md_content\":\"# Title\"}}",
      "{\"document\":{}}",
      "{}" }

ErrorBodies == { "{\"message\":\"not found\"}", "Internal Server Error" }

HealthBody == "{\"status\":\"ok\"}"

Empty == [k \in {} |-> ""]

\* resp.json(): the parsed mapping, or a failure to decode
json(text) ==
    CASE text = "{\"task_id\":\"t1\"}" -> [ok |-> TRUE, val |-> [task_id |-> "t1"]]
      [] text = "{\"task_id\":\"t2\"}" -> [ok |-> TRUE, val |-> [task_id |-> "t2"]]
      [] text = "{\"task_status\":\"pending\"}" -> [ok |-> TRUE, val |-> [task_status |-> "pending"]]
      [] text = "{\"task_status\":\"started\"}" -> [ok |-> TRUE, val |-> [task_status |-> "started"]]
      [] text = "{\"task_status\":\"success\"}" -> [ok |-> TRUE, val |-> [task_status |-> "success"]]
      [] text = "{\"task_status\":\"failure\"}" -> [ok |-> TRUE, val |-> [task_status |-> "failure"]]
      [] text = "{\"document\":{\"md_content\":\"# Title\"}}" ->
             [ok |-> TRUE, val |-> [document |-> [md_content |-> "# Title"]]]
      [] text = "{\"document\":{}}" -> [ok |-> TRUE, val |-> [document |-> Empty]]
      [] text = "{}" -> [ok |-> TRUE, val |-> Empty]
      [] text = "{\"message\":\"not found\"}" -> [ok |-> TRUE, val |-> [message |-> "not found"]]
      [] text = "{\"status\":\"ok\"}" -> [ok |-> TRUE, val |-> [status |-> "ok"]]
      [] OTHER -> [ok |-> FALSE, val |-> Empty]

(* --------------------------- the transport ----------------------------- *)

\* what the service (or the network) makes of one HTTP request
Reply(code, text) == [kind |-> "response", status_code |-> code, text |-> text]
TransportErrors == {[kind |-> "raises", status_code |-> 0, text |-> "ReadTimeout"],
                    [kind |-> "raises", status_code |-> 0, text |-> "ConnectError"]}
ErrorReplies == {Reply(code, text) : code \in StatusCodes \ {200}, text \in ErrorBodies}

\* DoclingServeClient.__init__: base_url.rstrip("/")
rstrip(url) == [stem |-> url.stem, slashes |-> 0]

\* _request with the status test one off: a 400 passes for a success
request_above_400(url_base, key, method, path, kwargs, reply) ==
    LET headers == IF key /= ""
                   THEN {[name |-> "Authorization", value |-> <<"Bearer", key>>]}
                   ELSE {}
        sent == [method |-> method, url |-> <<url_base.stem>> \o path,
                 headers |-> headers, kwargs |-> kwargs]
    IN  IF reply.kind = "raises"
        THEN [sent |-> <<sent>>, kind |-> "raise",
              exc |-> [type |-> reply.text]]
        ELSE IF reply.status_code > 400
        THEN [sent |-> <<sent>>, kind |-> "raise",
              exc |-> [type |-> "Exception", status_code |-> reply.status_code,
                       error |-> IF json(reply.text).ok
                                 THEN json(reply.text).val
                                 ELSE [message |-> reply.text]]]
        ELSE [sent |-> <<sent>>, kind |-> "return", resp |-> reply]

\* _request sending the request a second time when the first got an error status
request_retried(url_base, key, method, path, kwargs, reply) ==
    LET headers == IF key /= ""
                   THEN {[name |-> "Authorization", value |-> <<"Bearer", key>>]}
                   ELSE {}
        sent == [method |-> method, url |-> <<url_base.stem>> \o path,
                 headers |-> headers, kwargs |-> kwargs]
    IN  IF reply.kind = "raises"
        THEN [sent |-> <<sent>>, kind |-> "raise",
              exc |-> [type |-> reply.text]]
        ELSE IF reply.status_code >= 400
        THEN [sent |-> <<sent, sent>>, kind |-> "raise",
              exc |-> [type |-> "Exception", status_code |-> reply.status_code,
                       error |-> IF json(reply.text).ok
                                 THEN json(reply.text).val
                                 ELSE [message |-> reply.text]]]
        ELSE [sent |-> <<sent>>, kind |-> "return", resp |-> reply]

\* _request attaching the credential to the POST requests only
request_bearer_on_post(url_base, key, method, path, kwargs, reply) ==
    LET headers == IF key /= "" /\ method = "POST"
                   THEN {[name |-> "Authorization", value |-> <<"Bearer", key>>]}
                   ELSE {}
        sent == [method |-> method, url |-> <<url_base.stem>> \o path,
                 headers |-> headers, kwargs |-> kwargs]
    IN  IF reply.kind = "raises"
        THEN [sent |-> <<sent>>, kind |-> "raise",
              exc |-> [type |-> reply.text]]
        ELSE IF reply.status_code >= 400
        THEN [sent |-> <<sent>>, kind |-> "raise",
              exc |-> [type |-> "Exception", status_code |-> reply.status_code,
                       error |-> IF json(reply.text).ok
                                 THEN json(reply.text).val
                                 ELSE [message |-> reply.text]]]
        ELSE [sent |-> <<sent>>, kind |-> "return", resp |-> reply]

\* DoclingServeClient._request: the request it sends, and what comes of reply
request(url_base, key, method, path, kwargs, reply) ==
    LET headers == IF key /= ""
                   THEN {[name |-> "Authorization", value |-> <<"Bearer", key>>]}
                   ELSE {}
        sent == [method |-> method, url |-> <<url_base.stem>> \o path,
                 headers |-> headers, kwargs |-> kwargs]
    IN  IF reply.kind = "raises"
        THEN [sent |-> <<sent>>, kind |-> "raise",
              exc |-> [type |-> reply.text]]
        ELSE IF reply.status_code >= 400
        THEN [sent |-> <<sent>>, kind |-> "raise",
              exc |-> [type |-> "Exception", status_code |-> reply.status_code,
                       error |-> IF json(reply.text).ok
                                 THEN json(reply.text).val
                                 ELSE [message |-> reply.text]]]
        ELSE [sent |-> <<sent>>, kind |-> "return", resp |-> reply]

(* ------------------------------- state --------------------------------- *)

VARIABLES
    base_url,        \* self.base_url
    api_key,         \* self.api_key
    pc,              \* each caller's position in the operation it invoked
    op,              \* the operation each caller invoked
    files,           \* process_file_async: the files argument
    file_handles,    \* process_file_async: the handles opened, in order
    task_obj_id,     \* process_file_async: the task id of the submit response
    status_is_done,  \* wait_for_success: the loop flag
    polled,          \* wait_for_success: the task_status of each poll response
    sleeps,          \* wait_for_success: the time.sleep calls made
    pdf_path,        \* process_pdf: the pdf_path argument
    url_args,        \* process_url_async: the url_path and selected_option arguments
    calls,           \* the HTTP requests each caller's calls handed to httpx
    replies,         \* what came back for each call of _request, in order
    pending,         \* the return value or exception travelling through finally
    outcome,         \* what the invoked operation returned or raised
    tasks            \* the service: the status of each task

vars == <<base_url, api_key, pc, op, files, file_handles, task_obj_id,
          status_is_done, polled, sleeps, pdf_path, url_args, calls, replies,
          pending, outcome, tasks>>

client == <<base_url, api_key>>

NoResult == [kind |-> "none"]
Return(v) == [kind |-> "return", value |-> v]
Raise(e) == [kind |-> "raise", exc |-> e]

\* no call of process_url_async was made
NoArgs == [url_path |-> None, selected_option |-> None]

InitWith(active) ==
    /\ base_url \in {rstrip([stem |-> API_URL, slashes |-> n]) : n \in 0..1}
    /\ api_key \in ApiKeys
    /\ pc = [c \in Callers |-> IF c \in active THEN "idle" ELSE "off"]
    /\ op = [c \in Callers |-> "none"]
    /\ files = [c \in Callers |-> <<>>]
    /\ file_handles = [c \in Callers |-> <<>>]
    /\ task_obj_id = [c \in Callers |-> None]
    /\ status_is_done = [c \in Callers |-> FALSE]
    /\ polled = [c \in Callers |-> <<>>]
    /\ sleeps = [c \in Callers |-> 0]
    /\ pdf_path = [c \in Callers |-> None]
    /\ url_args = [c \in Callers |-> NoArgs]
    /\ calls = [c \in Callers |-> <<>>]
    /\ replies = [c \in Callers |-> <<>>]
    /\ pending = [c \in Callers |-> NoResult]
    /\ outcome = [c \in Callers |-> NoResult]
    /\ tasks = [t \in TaskIds |-> "none"]

\* one caller uses the client; the other never calls (its pc stays "off")
Init == InitWith({1})

(* ------------------------- the code's decisions ------------------------ *)

\* the existence test left out: every path passes
exists_unchecked(path) == TRUE

\* Path.exists()
exists(path) == path \in ExistingPaths

\* open(file_path, "rb"): a fresh open handle
open(path) == [path |-> path, open |-> TRUE, closes |-> 0]

\* file_handle.close()
close(h) == [path |-> h.path, open |-> FALSE, closes |-> h.closes + 1]

\* the finally block closing all handles but the first
close_all_skips_first(handles) ==
    [i \in 1..Len(handles) |-> IF i = 1 THEN handles[i] ELSE close(handles[i])]

\* the finally block: for file_handle in file_handles: file_handle.close()
close_all(handles) == [i \in 1..Len(handles) |-> close(handles[i])]

\* while status_is_done != True
while_condition(done) == done /= TRUE

\* the status test taking every status but pending for the end of the task
poll_success_not_pending(obj) == obj.task_status /= "pending"

\* the status test comparing with a word the service never sends
poll_success_done(obj) == obj.task_status = "done"

\* if resp_task_status_obj["task_status"] == "success"
poll_success(obj) == obj.task_status = "success"

\* process_pdf.extract_markdown
extract_markdown(data) ==
    IF "document" \notin DOMAIN data
    THEN Raise([type |-> "KeyError", key |-> "document"])
    ELSE IF "md_content" \in DOMAIN data.document
         THEN Return(data.document.md_content)
         ELSE Return(None)

(* ----------------------------- operations ------------------------------ *)

\* a local kept where every invocation on the client sees it (as an attribute of self)
Set_shared(f, c, v) == [d \in DOMAIN f |-> v]

\* an assignment to a local of c's invocation
Set(f, c, v) == [f EXCEPT ![c] = v]

\* what the service may answer to each request
SubmitReplies == {Reply(200, TaskBody(t)) : t \in {u \in TaskIds : tasks[u] = "none"}}
                     \cup ErrorReplies \cup TransportErrors
PollReplies(t) == {Reply(200, StatusBody(tasks[t]))} \cup ErrorReplies \cup TransportErrors
ResultReplies == {Reply(200, b) : b \in ResultBodies} \cup ErrorReplies \cup TransportErrors
HealthReplies == {Reply(200, HealthBody)} \cup ErrorReplies \cup TransportErrors
ClearReplies == {Reply(200, "{}")} \cup ErrorReplies \cup TransportErrors

\* process_file_async hands result to whoever called it
Leave(c, result) ==
    IF op[c] = "process_pdf"
    THEN /\ pc' = Set(pc, c, "pdf_ret")
         /\ pending' = Set(pending, c, result)
         /\ UNCHANGED outcome
    ELSE /\ pc' = Set(pc, c, "done")
         /\ pending' = Set(pending, c, NoResult)
         /\ outcome' = Set(outcome, c, result)

\* client.process_file_async(files) is called
CallProcessFileAsync(c, fs) ==
    /\ pc[c] = "idle"
    /\ op' = Set(op, c, "process_file_async")
    /\ files' = Set(files, c, fs)
    /\ pc' = Set(pc, c, "loop")
    /\ UNCHANGED <<pdf_path, url_args, replies, client, file_handles, task_obj_id, status_is_done, polled,
                   sleeps, calls, pending, outcome, tasks>>

\* process_pdf(client, pdf_path, selected_option) is called
CallProcessPdf(c, path) ==
    /\ pc[c] = "idle"
    /\ op' = Set(op, c, "process_pdf")
    /\ pdf_path' = Set(pdf_path, c, path)
    /\ IF ~exists(path)
       THEN /\ outcome' = Set(outcome, c,
                              Raise([type |-> "FileNotFoundError", path |-> path]))
            /\ pc' = Set(pc, c, "done")
            /\ UNCHANGED files
       ELSE /\ files' = Set(files, c, <<path>>)
            /\ pc' = Set(pc, c, "loop")
            /\ UNCHANGED outcome
    /\ UNCHANGED <<url_args, replies, client, file_handles, task_obj_id, status_is_done,
                   polled, sleeps, calls, pending, tasks>>

\* one turn of: for file_path in files
FileLoop(c) ==
    /\ pc[c] = "loop"
    /\ LET i == Len(file_handles[c]) + 1
       IN  IF i > Len(files[c])
           THEN /\ pc' = Set(pc, c, "submit")
                /\ UNCHANGED <<file_handles, pending, outcome>>
           ELSE IF ~exists(files[c][i])
           THEN /\ Leave(c, Raise([type |-> "FileNotFoundError", path |-> files[c][i]]))
                /\ UNCHANGED file_handles
           ELSE /\ file_handles' = Set(file_handles, c,
                                       Append(file_handles[c], open(files[c][i])))
                /\ UNCHANGED <<pc, pending, outcome>>
    /\ UNCHANGED <<pdf_path, url_args, replies, client, op, files, task_obj_id, status_is_done, polled,
                   sleeps, calls, tasks>>

\* resp = self._request("POST", PROCESS_FILE_ENDPOINT, ...); task_obj_id = ...
SubmitGets(c, reply) ==
    /\ LET kwargs == [files |-> [i \in 1..Len(file_handles[c]) |-> file_handles[c][i].path],
                      data |-> IF op[c] = "process_pdf" THEN {"options"} ELSE {}]
           r == request(base_url, api_key, "POST", PROCESS_FILE_ENDPOINT, kwargs, reply)
           task_obj == json(r.resp.text)
       IN  /\ calls' = Set(calls, c, calls[c] \o r.sent)
           /\ replies' = Set(replies, c, Append(replies[c], reply))
           /\ IF r.kind = "raise"
              THEN /\ pending' = Set(pending, c, Raise(r.exc))
                   /\ pc' = Set(pc, c, "finally")
                   /\ UNCHANGED <<task_obj_id, status_is_done>>
              ELSE IF ~task_obj.ok
              THEN /\ pending' = Set(pending, c, Raise([type |-> "JSONDecodeError"]))
                   /\ pc' = Set(pc, c, "finally")
                   /\ UNCHANGED <<task_obj_id, status_is_done>>
              ELSE IF "task_id" \notin DOMAIN task_obj.val
              THEN /\ pending' = Set(pending, c, Raise([type |-> "KeyError", key |-> "task_id"]))
                   /\ pc' = Set(pc, c, "finally")
                   /\ UNCHANGED <<task_obj_id, status_is_done>>
              ELSE /\ task_obj_id' = Set(task_obj_id, c, task_obj.val.task_id)
                   /\ status_is_done' = Set(status_is_done, c, FALSE)
                   /\ pc' = Set(pc, c, "while")
                   /\ UNCHANGED pending
    /\ tasks' = IF reply.kind = "response" /\ reply.status_code = 200
                THEN [t \in TaskIds |-> IF reply.text = TaskBody(t) THEN "pending" ELSE tasks[t]]
                ELSE tasks
    /\ UNCHANGED <<pdf_path, url_args, client, op, files, file_handles, polled, sleeps, outcome>>

Submit(c) ==
    /\ pc[c] = "submit"
    /\ \E reply \in SubmitReplies : SubmitGets(c, reply)

\* the loop going on to its poll without the sleep
Sleep_skipped(c) ==
    /\ pc[c] = "while"
    /\ while_condition(status_is_done[c])
    /\ Len(calls[c]) <= MaxPolls
    /\ pc' = Set(pc, c, "poll")
    /\ UNCHANGED <<client, op, files, file_handles, task_obj_id, status_is_done, polled,
                   sleeps, pdf_path, url_args, calls, replies, pending, outcome, tasks>>

\* wait_for_success: the loop condition holds; time.sleep(WAITING_TIME)
Sleep(c) ==
    /\ pc[c] = "while"
    /\ while_condition(status_is_done[c])
    /\ sleeps[c] < MaxPolls
    /\ sleeps' = Set(sleeps, c, sleeps[c] + 1)
    /\ pc' = Set(pc, c, "poll")
    /\ UNCHANGED <<pdf_path, url_args, replies, client, op, files, file_handles, task_obj_id, status_is_done,
                   polled, calls, pending, outcome, tasks>>

\* wait_for_success: self._request("GET", f"/v1/status/poll/{task_id}", timeout=WAITING_TIME)
PollGets(c, reply) ==
    /\ LET r == request(base_url, api_key, "GET", <<"/v1/status/poll/", task_obj_id[c]>>,
                        [timeout |-> WAITING_TIME], reply)
           resp_task_status_obj == json(r.resp.text)
       IN  /\ calls' = Set(calls, c, calls[c] \o r.sent)
           /\ replies' = Set(replies, c, Append(replies[c], reply))
           /\ IF r.kind = "raise"
              THEN /\ pending' = Set(pending, c, Raise(r.exc))
                   /\ pc' = Set(pc, c, "finally")
                   /\ UNCHANGED <<status_is_done, polled>>
              ELSE IF ~resp_task_status_obj.ok
              THEN /\ pending' = Set(pending, c, Raise([type |-> "JSONDecodeError"]))
                   /\ pc' = Set(pc, c, "finally")
                   /\ UNCHANGED <<status_is_done, polled>>
              ELSE IF "task_status" \notin DOMAIN resp_task_status_obj.val
              THEN /\ pending' = Set(pending, c,
                                     Raise([type |-> "KeyError", key |-> "task_status"]))
                   /\ pc' = Set(pc, c, "finally")
                   /\ UNCHANGED <<status_is_done, polled>>
              ELSE /\ polled' = Set(polled, c,
                                    Append(polled[c], resp_task_status_obj.val.task_status))
                   /\ status_is_done' =
                          Set(status_is_done, c,
                              IF poll_success(resp_task_status_obj.val)
                              THEN TRUE ELSE status_is_done[c])
                   /\ pc' = Set(pc, c, "while")
                   /\ UNCHANGED pending
    /\ UNCHANGED <<pdf_path, url_args, client, op, files, file_handles, task_obj_id, sleeps,
                   outcome, tasks>>

Poll(c) ==
    /\ pc[c] = "poll"
    /\ \E reply \in PollReplies(task_obj_id[c]) : PollGets(c, reply)

\* wait_for_success: the loop condition fails; return status_is_done
WaitReturn(c) ==
    /\ pc[c] = "while"
    /\ ~while_condition(status_is_done[c])
    /\ IF status_is_done[c]
       THEN /\ pc' = Set(pc, c, "result")
            /\ UNCHANGED pending
       ELSE /\ pc' = Set(pc, c, "finally")
            /\ pending' = Set(pending, c, Raise([type |-> "UnboundLocalError"]))
    /\ UNCHANGED <<pdf_path, url_args, replies, client, op, files, file_handles, task_obj_id, status_is_done,
                   polled, sleeps, calls, outcome, tasks>>

\* result_obj = self.get_parsed_result(task_obj_id); return result_obj.json()
GetResultGets(c, reply) ==
    /\ LET r == request(base_url, api_key, "GET", <<"/v1/result/", task_obj_id[c]>>,
                        Empty, reply)
           result_obj == json(r.resp.text)
       IN  /\ calls' = Set(calls, c, calls[c] \o r.sent)
           /\ replies' = Set(replies, c, Append(replies[c], reply))
           /\ pending' = Set(pending, c,
                             IF r.kind = "raise" THEN Raise(r.exc)
                             ELSE IF ~result_obj.ok THEN Raise([type |-> "JSONDecodeError"])
                             ELSE Return(result_obj.val))
    /\ pc' = Set(pc, c, "finally")
    /\ UNCHANGED <<pdf_path, url_args, client, op, files, file_handles, task_obj_id, status_is_done,
                   polled, sleeps, outcome, tasks>>

GetResult(c) ==
    /\ pc[c] = "result"
    /\ \E reply \in ResultReplies : GetResultGets(c, reply)

\* finally: close every handle of file_handles, then return or re-raise
Finally(c) ==
    /\ pc[c] = "finally"
    /\ file_handles' = Set(file_handles, c, close_all(file_handles[c]))
    /\ Leave(c, pending[c])
    /\ UNCHANGED <<pdf_path, url_args, replies, client, op, files, task_obj_id, status_is_done, polled,
                   sleeps, calls, tasks>>

\* process_pdf with an except clause that gives up and returns None
ProcessPdfReturn_swallows(c) ==
    /\ pc[c] = "pdf_ret"
    /\ LET got == IF pending[c].kind = "return"
                  THEN extract_markdown(pending[c].value)
                  ELSE pending[c]
       IN  outcome' = Set(outcome, c, IF got.kind = "raise" THEN Return(None) ELSE got)
    /\ pending' = Set(pending, c, NoResult)
    /\ pc' = Set(pc, c, "done")
    /\ UNCHANGED <<pdf_path, url_args, replies, client, op, files, file_handles, task_obj_id,
                   status_is_done, polled, sleeps, calls, tasks>>

\* process_pdf: extract the markdown, or wrap what process_file_async raised
ProcessPdfReturn(c) ==
    /\ pc[c] = "pdf_ret"
    /\ LET got == IF pending[c].kind = "return"
                  THEN extract_markdown(pending[c].value)
                  ELSE pending[c]
       IN  outcome' = Set(outcome, c,
                          IF got.kind = "raise"
                          THEN Raise([type |-> "RuntimeError", cause |-> got.exc])
                          ELSE got)
    /\ pending' = Set(pending, c, NoResult)
    /\ pc' = Set(pc, c, "done")
    /\ UNCHANGED <<pdf_path, url_args, replies, client, op, files, file_handles, task_obj_id, status_is_done,
                   polled, sleeps, calls, tasks>>

\* a call that is one request: resp = self._request("GET", path); return resp.json()
OneRequest(c, name, path, reply) ==
    /\ op' = Set(op, c, name)
    /\ LET r == request(base_url, api_key, "GET", path, Empty, reply)
           body == json(r.resp.text)
       IN  /\ calls' = Set(calls, c, calls[c] \o r.sent)
           /\ replies' = Set(replies, c, Append(replies[c], reply))
           /\ outcome' = Set(outcome, c,
                             IF r.kind = "raise" THEN Raise(r.exc)
                             ELSE IF ~body.ok THEN Raise([type |-> "JSONDecodeError"])
                             ELSE Return(body.val))
    /\ pc' = Set(pc, c, "done")
    /\ UNCHANGED <<pdf_path, url_args, client, files, file_handles, task_obj_id, status_is_done,
                   polled, sleeps, pending, tasks>>

\* client.health()
Health(c) ==
    /\ pc[c] = "idle"
    /\ \E reply \in HealthReplies : OneRequest(c, "health", <<"/health">>, reply)

\* client.clear_converters()
ClearConverters(c) ==
    /\ pc[c] = "idle"
    /\ \E reply \in ClearReplies :
           OneRequest(c, "clear_converters", <<"/v1/clear/converters">>, reply)

\* process_url_async(client, url_path, selected_option): the request mapping is
\* built, and then client.request is looked up on the DoclingServeClient, which
\* has no such attribute (its transport is _request): AttributeError, before
\* the names method and kwargs, defined nowhere, are read and before any
\* HTTP request
ProcessUrlAsync(c, url, option) ==
    /\ pc[c] = "idle"
    /\ op' = Set(op, c, "process_url_async")
    /\ url_args' = Set(url_args, c, [url_path |-> url, selected_option |-> option])
    /\ LET request_body == [url |-> url, model |-> "docling-minilm-legacy", pages |-> "all"]
       IN  outcome' = Set(outcome, c, Raise([type |-> "AttributeError", name |-> "request"]))
    /\ pc' = Set(pc, c, "done")
    /\ UNCHANGED <<pdf_path, client, files, file_handles, task_obj_id, status_is_done,
                   polled, sleeps, calls, replies, pending, tasks>>

\* the service works on a task: its status moves forward, never back
Rank(s) == CASE s = "pending" -> 0 [] s = "started" -> 1 [] OTHER -> 2
ServiceAdvance(t, s) ==
    /\ tasks[t] \in NonTerminal
    /\ s \in {"started", "success", "failure"}
    /\ Rank(s) > Rank(tasks[t])
    /\ tasks' = [tasks EXCEPT ![t] = s]
    /\ UNCHANGED <<pdf_path, url_args, replies, client, pc, op, files, file_handles, task_obj_id, status_is_done,
                   polled, sleeps, calls, pending, outcome>>

CallerStep(c) ==
    \/ \E fs \in FileLists : CallProcessFileAsync(c, fs)
    \/ \E path \in Paths : CallProcessPdf(c, path)
    \/ Health(c)
    \/ ClearConverters(c)
    \/ \E url \in Urls, option \in Options : ProcessUrlAsync(c, url, option)
    \/ FileLoop(c)
    \/ Submit(c)
    \/ Sleep(c)
    \/ Poll(c)
    \/ WaitReturn(c)
    \/ GetResult(c)
    \/ Finally(c)
    \/ ProcessPdfReturn(c)

Next ==
    \/ \E c \in Callers : CallerStep(c)
    \/ \E t \in TaskIds, s \in Terminal \cup NonTerminal : ServiceAdvance(t, s)

Spec == Init /\ [][Next]_vars

\* every caller is a running thread: a step it can take, it takes
LiveSpec == Init /\ [][Next]_vars /\ \A c \in Callers : WF_vars(CallerStep(c))

\* the lists of paths handed to two conversions that run side by side
ConcFileLists == {<<"a.pdf">>, <<"a.pdf", "missing.pdf">>}

\* one step of a conversion by process_file_async
ConversionStep(c) ==
    \/ \E fs \in ConcFileLists : CallProcessFileAsync(c, fs)
    \/ FileLoop(c)
    \/ Submit(c)
    \/ Sleep(c)
    \/ Poll(c)
    \/ WaitReturn(c)
    \/ GetResult(c)
    \/ Finally(c)

ConcNext ==
    \/ \E c \in Callers : ConversionStep(c)
    \/ \E t \in TaskIds, s \in Terminal \cup NonTerminal : ServiceAdvance(t, s)

\* two callers run process_file_async on the one client, which was built with
\* a credential, in any interleaving
ConcInit == InitWith(Callers) /\ api_key = "secret"
ConcSpec == ConcInit /\ [][ConcNext]_vars

(* ------------------------------ properties ----------------------------- *)

Converts(c) == op[c] \in {"process_file_async", "process_pdf"}

\* process_file_async is over for c: it returned or raised
Left(c) == Converts(c) /\ pc[c] \in {"pdf_ret", "done"}

IsSubmit(req) == req.method = "POST" /\ Tail(req.url) = PROCESS_FILE_ENDPOINT
IsPoll(req) == req.method = "GET" /\ req.url[2] = "/v1/status/poll/"
IsResult(req) == req.method = "GET" /\ req.url[2] = "/v1/result/"
PollCalls(c) == Cardinality({i \in 1..Len(calls[c]) : IsPoll(calls[c][i])})

IsErrorStatus(reply) == reply.kind = "response" /\ reply.status_code >= 400
IsError(reply) == reply.kind = "raises" \/ IsErrorStatus(reply)

\* the result or exception on its way to c's caller, without process_pdf's wrapping
Unwrap(r) == IF r.kind = "raise" /\ r.exc.type = "RuntimeError" THEN Raise(r.exc.cause) ELSE r
Surfaced(c) == Unwrap(IF pc[c] = "done" THEN outcome[c] ELSE pending[c])

InWait(c) == pc[c] \in {"while", "poll"}

C2_NoPollAfterFailure ==
    \A c \in Callers :
        \A i \in 1..Len(polled[c]) :
            polled[c][i] = "failure"
                => /\ PollCalls(c) <= i
                   /\ pc[c] = "done" => Surfaced(c) = Raise([type |-> "TaskFailedError"])

\* C3 (as claimed): when process_file_async raises FileNotFoundError it has
\* opened no file handle.
C3_NoPartialAcquisition ==
    \A c \in Callers :
        (Left(c) /\ Surfaced(c).kind = "raise"
                 /\ Surfaced(c).exc.type = "FileNotFoundError")
            => Len(file_handles[c]) = 0

\* C4 (as claimed): while the client sleeps in or polls from the wait loop, or
\* fetches the result, no handle opened for the submission is still open.
C4_NoHandleOpenWhilePolling ==
    \A c \in Callers :
        pc[c] \in {"while", "poll", "result"}
            => \A i \in 1..Len(file_handles[c]) : ~file_handles[c][i].open

\* C5: a conversion given a path that does not exist never hands a request
\* to the transport, and ends by raising FileNotFoundError for that path.
C5_NoRequestOnMissingPath ==
    \A c \in Callers :
        /\ (op[c] = "process_file_async"
              /\ \E i \in 1..Len(files[c]) : files[c][i] \notin ExistingPaths)
               => /\ calls[c] = <<>>
                  /\ pc[c] \in {"loop", "done"}
                  /\ pc[c] = "done"
                         => /\ outcome[c].kind = "raise"
                            /\ outcome[c].exc.type = "FileNotFoundError"
                            /\ outcome[c].exc.path \notin ExistingPaths
        /\ (op[c] = "process_pdf" /\ pdf_path[c] \notin ExistingPaths)
               => /\ calls[c] = <<>>
                  /\ pc[c] = "done"
                  /\ outcome[c] = Raise([type |-> "FileNotFoundError", path |-> pdf_path[c]])

\* the missing path comes second in the list, and the call has raised
C5_Witness ==
    \E c \in Callers :
        /\ op[c] = "process_file_async" /\ pc[c] = "done"
        /\ Len(files[c]) >= 2
        /\ files[c][1] \in ExistingPaths /\ files[c][2] \notin ExistingPaths
        /\ outcome[c].kind = "raise"
        /\ calls[c] = <<>>

\* C6: every poll of the wait loop follows one sleep of its own (a poll is
\* pending exactly when one more sleep than polls was made), and when
\* wait_for_success returns the last poll response reported success, none
\* before it did, and as many polls as sleeps were made.
C6_OnePollPerSleep ==
    \A c \in Callers :
        /\ PollCalls(c) = IF pc[c] = "poll" THEN sleeps[c] - 1 ELSE sleeps[c]
        /\ pc[c] = "result"
               => /\ Len(polled[c]) >= 1
                  /\ polled[c][Len(polled[c])] = "success"
                  /\ \A i \in 1..(Len(polled[c]) - 1) : polled[c][i] \in NonTerminal
                  /\ PollCalls(c) = sleeps[c]
                  /\ PollCalls(c) = Len(polled[c])

\* the wait loop has returned after pending, started, success
C6_Witness ==
    \E c \in Callers :
        /\ pc[c] = "result"
        /\ polled[c] = <<"pending", "started", "success">>
        /\ sleeps[c] = 3

ParsedOrRaw(text) ==
    CASE text = "{\"message\":\"not found\"}" -> [message |-> "not found"]
      [] text = "Internal Server Error" -> [message |-> "Internal Server Error"]

\* C8: a response with status >= 400 to any call is the last response that
\* call gets, and what reaches the caller is the error carrying that status
\* code and the parsed body (the raw text if the body is no JSON), never a
\* normal result.
C8_ErrorStatusSurfaced ==
    \A c \in Callers :
        \A i \in 1..Len(replies[c]) :
            IsErrorStatus(replies[c][i])
                => /\ i = Len(replies[c])
                   /\ Surfaced(c) = Raise([type |-> "Exception",
                                           status_code |-> replies[c][i].status_code,
                                           error |-> ParsedOrRaw(replies[c][i].text)])

\* health() got 404 {"message":"not found"}; a poll got 404 with a raw text
C8_Witness ==
    \E c \in Callers :
        /\ pc[c] = "done"
        /\ \/ /\ op[c] = "health"
              /\ replies[c] = <<Reply(404, "{\"message\":\"not found\"}")>>
              /\ outcome[c] = Raise([type |-> "Exception", status_code |-> 404,
                                     error |-> [message |-> "not found"]])
           \/ /\ op[c] = "process_pdf"
              /\ Len(polled[c]) >= 1
              /\ replies[c][Len(replies[c])] = Reply(404, "Internal Server Error")

\* C9: every reply answers one request (no request is sent twice), and a
\* reply that is an error (status >= 400, or the transport raising) is the
\* last of its conversion or call: the error is on its way to the caller and
\* no further request is sent.
C9_NoRetry ==
    \A c \in Callers :
        /\ Len(calls[c]) = Len(replies[c])
        /\ \A i \in 1..Len(replies[c]) :
               IsError(replies[c][i])
                   => /\ i = Len(calls[c])
                      /\ pc[c] \in {"finally", "pdf_ret", "done"}
                      /\ Surfaced(c).kind = "raise"
                      /\ replies[c][i].kind = "raises"
                             => Surfaced(c).exc.type = replies[c][i].text

\* a poll failed after an earlier poll went well, and the conversion is over
C9_Witness ==
    \E c \in Callers :
        /\ op[c] = "process_file_async" /\ pc[c] = "done"
        /\ Len(polled[c]) >= 1
        /\ IsPoll(calls[c][Len(calls[c])])
        /\ IsErrorStatus(replies[c][Len(replies[c])])

\* the wait loop may still go round
Budget(c) == pc[c] = "poll" \/ sleeps[c] < MaxPolls

\* C10: once the service holds the task at success, a wait loop that may
\* still go round comes to its end (it returns, or a poll raised); and the
\* loop ends in no other way than by a poll that reported success or by a
\* poll that raised: it never gives up while the responses are not success.
C10_WaitReturnsOnSuccessOnly ==
    /\ \A c \in Callers :
           (InWait(c) /\ Budget(c) /\ tasks[task_obj_id[c]] = "success")
               ~> (pc[c] = "result" \/ pending[c].kind = "raise")
    /\ [][\A c \in Callers :
              (InWait(c) /\ ~InWait(c)')
                  => \/ /\ pc'[c] = "result"
                        /\ polled[c][Len(polled[c])] = "success"
                     \/ /\ pc'[c] = "finally"
                        /\ IsError(replies'[c][Len(replies'[c])])]_vars

\* as many polls as the model follows, none terminal, and the loop goes on
C10_Witness ==
    \E c \in Callers :
        /\ pc[c] = "while"
        /\ Len(polled[c]) >= 3
        /\ \A i \in 1..Len(polled[c]) : polled[c][i] \in NonTerminal
        /\ while_condition(status_is_done[c])

\* C11 (as claimed): process_pdf, given the result of a conversion that went
\* well, returns the markdown text when the result has document.md_content,
\* and returns None, raising nothing, when the result has no document key or
\* its document has no md_content.
C11_ExtractOrAbsent ==
    \A c \in Callers :
        (op[c] = "process_pdf" /\ pc[c] = "done" /\ Len(replies[c]) >= 3
            /\ IsResult(calls[c][Len(calls[c])])
            /\ ~IsError(replies[c][Len(replies[c])]))
            => LET text == replies[c][Len(replies[c])].text
               IN  outcome[c] =
                       Return(IF text = "{\"document\":{\"md_content\":\"# Title\"}}"
                              THEN "# Title" ELSE None)

\* C13: a conversion in which the submit, a poll or the result fetch failed
\* never ends with a normal return; a conversion that returns normally got
\* no error reply; and process_pdf returns None only for a result whose
\* document has no md_content.
C13_ErrorsSurface ==
    \A c \in Callers :
        (Converts(c) /\ pc[c] = "done")
            => /\ (\E i \in 1..Len(replies[c]) : IsError(replies[c][i]))
                      => outcome[c].kind = "raise"
               /\ outcome[c].kind = "return"
                      => /\ Len(replies[c]) >= 3
                         /\ \A i \in 1..Len(replies[c]) : ~IsError(replies[c][i])
               /\ (op[c] = "process_pdf" /\ outcome[c].kind = "return"
                                          /\ outcome[c].value = None)
                      => replies[c][Len(replies[c])] = Reply(200, "{\"document\":{}}")

\* process_pdf ended after the result fetch got an error status
C13_Witness ==
    \E c \in Callers :
        /\ op[c] = "process_pdf" /\ pc[c] = "done"
        /\ Len(calls[c]) >= 3
        /\ IsResult(calls[c][Len(calls[c])])
        /\ IsErrorStatus(replies[c][Len(replies[c])])
        /\ outcome[c].kind = "raise"
        /\ outcome[c].exc.type = "RuntimeError"

\* C12 (as claimed): process_url_async hands the transport exactly one
\* request, a POST to /v1/convert/source/async whose JSON body holds the
\* source URL and the options, sends no poll, and returns the task handle
\* parsed from the response.
C12_SubmitByUrl ==
    \A c \in Callers :
        (op[c] = "process_url_async" /\ pc[c] = "done")
            => /\ Len(calls[c]) = 1
               /\ calls[c][1].method = "POST"
               /\ Tail(calls[c][1].url) = PROCESS_URL_ENDPOINT
               /\ calls[c][1].kwargs.json.url = url_args[c].url_path
               /\ "options" \in DOMAIN calls[c][1].kwargs.json
               /\ ~IsError(replies[c][1]) => outcome[c].kind = "return"

\* C14: with a credential configured every request of every operation
\* carries Authorization: Bearer <api_key> and nothing else; with none
\* configured no request carries a header; every request goes to the base
\* URL; and no step changes the credential or the base URL.
C14_BearerOnEveryRequest ==
    /\ [](\A c \in Callers :
              \A i \in 1..Len(calls[c]) :
                  /\ calls[c][i].headers =
                         IF api_key = ""
                         THEN {}
                         ELSE {[name |-> "Authorization", value |-> <<"Bearer", api_key>>]}
                  /\ calls[c][i].url[1] = base_url.stem)
    /\ [][api_key' = api_key /\ base_url' = base_url]_vars

\* a conversion with a credential has sent its POST, a poll and its result GET
C14_Witness ==
    \E c \in Callers :
        /\ api_key = "secret"
        /\ pc[c] = "done"
        /\ Len(calls[c]) >= 3
        /\ IsSubmit(calls[c][1])
        /\ IsPoll(calls[c][2])
        /\ IsResult(calls[c][Len(calls[c])])
        /\ \A i \in 1..Len(calls[c]) :
               \E h \in calls[c][i].headers : h.name = "Authorization"

\* everything that belongs to one invocation by caller c
Locals(c) == <<pc[c], op[c], files[c], file_handles[c], task_obj_id[c], status_is_done[c],
               polled[c], sleeps[c], pdf_path[c], url_args[c], calls[c], replies[c],
               pending[c], outcome[c]>>

\* the handles c held before the step are the handles at the same places after it
SameHandles(c) ==
    /\ Len(file_handles'[c]) >= Len(file_handles[c])
    /\ \A i \in 1..Len(file_handles[c]) : file_handles'[c][i].path = file_handles[c][i].path

\* C15: with two conversions under way in any interleaving, each polls and
\* fetches only the task its own submit response named, and that task is not
\* the other's; a step changes the locals of one invocation at most, and a
\* step of one invocation changes neither the other's locals, nor the other's
\* handles, nor the service's status of the other's task; handles change only
\* in their own invocation's loop (opened) and finally (closed); and the
\* client's own fields are never written.
C15_ConversionsIndependent ==
    /\ [](\A c \in Callers :
              /\ Len(calls[c]) >= 2 => replies[c][1].text = TaskBody(task_obj_id[c])
              /\ \A i \in 2..Len(calls[c]) : calls[c][i].url[3] = task_obj_id[c]
              /\ \A d \in Callers \ {c} :
                     task_obj_id[c] /= None => task_obj_id[d] /= task_obj_id[c])
    /\ [][\A c \in Callers :
              /\ file_handles'[c] /= file_handles[c]
                     => pc[c] \in {"loop", "finally"} /\ SameHandles(c)
              /\ Locals(c)' /= Locals(c)
                     => \A d \in Callers \ {c} :
                            /\ Locals(d)' = Locals(d)
                            /\ task_obj_id[d] /= None
                                   => tasks'[task_obj_id[d]] = tasks[task_obj_id[d]]]_vars
    /\ [][client' = client]_vars

\* one conversion has ended in an error while the other, which holds an open
\* handle and another task, is still in its wait loop after a poll
C15_Witness ==
    \E c \in Callers :
        \E d \in Callers \ {c} :
            /\ pc[c] = "done" /\ outcome[c].kind = "raise" /\ Len(calls[c]) >= 2
            /\ InWait(d) /\ Len(polled[d]) >= 1
            /\ task_obj_id[d] /= task_obj_id[c]
            /\ \E i \in 1..Len(file_handles[d]) : file_handles[d][i].open
            /\ \A i \in 1..Len(file_handles[c]) : ~file_handles[c][i].open

====
